---------------------------- MODULE Spec2Model ----------------------------
(***************************************************************************)
(* Model of the Arrow Flight bridge (src/tests/src/teradata/                *)
(* arrow_bridge.py): the accept loop, the per-connection handler            *)
(* handle_client with its downstream Flight stream, and the batch decoder  *)
(* _parse_batch.                                                            *)
(*                                                                         *)
(* Bytes are the integers 0..255, byte strings are sequences of bytes,     *)
(* Python str values are sequences of code points.  Offsets are 0-based as *)
(* in the source.                                                          *)
(***************************************************************************)
EXTENDS Integers, Sequences, FiniteSets, TLC

VARIABLES
    running,   \* ArrowBridge.running
    sess,      \* per connection: the locals of its handle_client thread
    sink,      \* per DoPut stream: what the downstream Flight server observed
    budget,    \* batch frames the peers may still send
    p          \* the locals of one _parse_batch or _recv_exact call, run
               \* step by step

vars == <<running, sess, sink, budget, p>>

(***************************************************************************)
(* Byte strings and struct.unpack                                          *)
(***************************************************************************)

Min(a, b) == IF a < b THEN a ELSE b

\* Python's data[a:b] for 0 <= a <= b: the slice is clamped to the data,
\* it never raises.
Slice(data, a, b) == SubSeq(data, a + 1, Min(b, Len(data)))

\* struct.error / IndexError / UnicodeDecodeError: the call raised
Raised == [ok |-> FALSE]

Returned(v) == [ok |-> TRUE, val |-> v]

\* struct.unpack('!I', b)[0]: unsigned 32-bit big-endian, raises unless
\* b holds exactly 4 bytes.  (The model's inputs keep b[1] < 128.)
UnpackU32(b) ==
    IF Len(b) # 4 THEN Raised
    ELSE Returned(b[1] * 16777216 + b[2] * 65536 + b[3] * 256 + b[4])

\* struct.unpack('!H', b)[0]: unsigned 16-bit big-endian
UnpackU16(b) ==
    IF Len(b) # 2 THEN Raised
    ELSE Returned(b[1] * 256 + b[2])

\* UnpackI32 with the sign bit dropped
UnpackI32SignDropped(b) ==
    IF Len(b) # 4 THEN Raised
    ELSE Returned((b[1] % 128) * 16777216 + b[2] * 65536 + b[3] * 256 + b[4])

\* struct.unpack('!i', b)[0]: signed 32-bit big-endian (two's complement)
UnpackI32(b) ==
    IF Len(b) # 4 THEN Raised
    ELSE Returned((IF b[1] >= 128 THEN b[1] - 256 ELSE b[1]) * 16777216
                  + b[2] * 65536 + b[3] * 256 + b[4])

\* struct.unpack('!q', b)[0]: signed 64-bit big-endian.  The value
\* hi * 2^32 + mid * 2^16 + low is kept as <<hi, mid, low>>, hi signed.
UnpackI64(b) ==
    IF Len(b) # 8 THEN Raised
    ELSE Returned(<< UnpackI32(SubSeq(b, 1, 4)).val,
                     b[5] * 256 + b[6],
                     b[7] * 256 + b[8] >>)

\* struct.unpack('!d', b)[0]: IEEE-754 binary64, kept as its fields
\* <<sign, exponent (11 bits), fraction (20 + 16 + 16 bits)>>.
UnpackF64(b) ==
    IF Len(b) # 8 THEN Raised
    ELSE Returned(<< b[1] \div 128,
                     (b[1] % 128) * 16 + (b[2] \div 16),
                     (b[2] % 16) * 65536 + b[3] * 256 + b[4],
                     b[5] * 256 + b[6],
                     b[7] * 256 + b[8] >>)

(***************************************************************************)
(* bytes.decode('utf-8', errors=...)                                       *)
(***************************************************************************)

ReplacementChar == 65533

\* length of the sequence a lead byte announces; 0: not a lead byte
Utf8Need(c) ==
    IF c < 128 THEN 1
    ELSE IF c < 194 THEN 0
    ELSE IF c < 224 THEN 2
    ELSE IF c < 240 THEN 3
    ELSE IF c < 245 THEN 4
    ELSE 0

\* whether x may be the j-th continuation byte after lead byte c
Utf8ContOk(c, j, x) ==
    LET lo == IF j = 1 /\ c = 224 THEN 160
              ELSE IF j = 1 /\ c = 240 THEN 144 ELSE 128
        hi == IF j = 1 /\ c = 237 THEN 159
              ELSE IF j = 1 /\ c = 244 THEN 143 ELSE 191
    IN  lo <= x /\ x <= hi

\* number of valid continuation bytes that follow the lead byte at b[i]
RECURSIVE Utf8Conts(_, _, _, _)
Utf8Conts(b, i, need, j) ==
    IF j >= need \/ i + j > Len(b) THEN j - 1
    ELSE IF Utf8ContOk(b[i], j, b[i + j]) THEN Utf8Conts(b, i, need, j + 1)
    ELSE j - 1

Utf8CodePoint(b, i, need) ==
    IF need = 1 THEN b[i]
    ELSE IF need = 2 THEN (b[i] - 192) * 64 + (b[i + 1] - 128)
    ELSE IF need = 3 THEN (b[i] - 224) * 4096 + (b[i + 1] - 128) * 64
                          + (b[i + 2] - 128)
    ELSE (b[i] - 240) * 262144 + (b[i + 1] - 128) * 4096
         + (b[i + 2] - 128) * 64 + (b[i + 3] - 128)

\* length of the run of ASCII bytes that starts at b[i]
AsciiRun(b, i) ==
    LET high == {j \in i..Len(b) : b[j] >= 128}
    IN  IF high = {} THEN Len(b) + 1 - i
        ELSE (CHOOSE j \in high : \A k \in high : j <= k) - i

\* b[i..] decoded onto acc; replace: errors='replace', else 'strict'.
\* A run of ASCII bytes is taken in one step, each byte its own code point.
RECURSIVE Utf8From(_, _, _, _)
Utf8From(b, i, acc, replace) ==
    IF i > Len(b) THEN Returned(acc)
    ELSE IF b[i] < 128
    THEN LET run == AsciiRun(b, i)
         IN  Utf8From(b, i + run, acc \o SubSeq(b, i, i + run - 1), replace)
    ELSE LET need == Utf8Need(b[i])
             k    == IF need = 0 THEN 0 ELSE Utf8Conts(b, i, need, 1)
         IN  IF need # 0 /\ k = need - 1
             THEN Utf8From(b, i + need,
                           Append(acc, Utf8CodePoint(b, i, need)), replace)
             ELSE IF replace
             THEN Utf8From(b, i + 1 + k, Append(acc, ReplacementChar), replace)
             ELSE Raised

DecodeStrict(b) == Utf8From(b, 1, <<>>, FALSE)

DecodeReplace(b) == Utf8From(b, 1, <<>>, TRUE).val

(***************************************************************************)
(* Schema negotiation: handle_client, "Build Arrow schema"                 *)
(***************************************************************************)

\* FieldType matching the type tags whatever their case
FieldTypeAnyCase(tag) ==
    IF tag \in {"INTEGER", "integer"} THEN "int32"
    ELSE IF tag = "BIGINT" THEN "int64"
    ELSE IF tag = "VARCHAR" THEN "string"
    ELSE IF tag = "DOUBLE" THEN "float64"
    ELSE "string"

\* the if/elif chain of lines 68-77: the Arrow type of a schema field
FieldType(tag) ==
    IF tag = "INTEGER" THEN "int32"
    ELSE IF tag = "BIGINT" THEN "int64"
    ELSE IF tag = "VARCHAR" THEN "string"
    ELSE IF tag = "DOUBLE" THEN "float64"
    ELSE "string"

\* fields / pa.schema(fields), lines 66-78
BuildSchema(columns) ==
    [i \in 1..Len(columns) |->
        [name |-> columns[i].name, type |-> FieldType(columns[i].type)]]

(***************************************************************************)
(* _parse_batch                                                            *)
(***************************************************************************)

None == [null |-> TRUE]

Some(v) == [null |-> FALSE, val |-> v]

\* the if/elif chain of lines 166-183: one present value of a column of the
\* given type tag read at offset off; [ok, val, offset] or Raised
DecodeValue(data, off, tag) ==
    IF tag = "INTEGER"
    THEN LET r == UnpackI32(Slice(data, off, off + 4))
         IN  IF r.ok THEN [ok |-> TRUE, val |-> r.val, offset |-> off + 4]
             ELSE Raised
    ELSE IF tag = "BIGINT"
    THEN LET r == UnpackI64(Slice(data, off, off + 8))
         IN  IF r.ok THEN [ok |-> TRUE, val |-> r.val, offset |-> off + 8]
             ELSE Raised
    ELSE IF tag = "DOUBLE"
    THEN LET r == UnpackF64(Slice(data, off, off + 8))
         IN  IF r.ok THEN [ok |-> TRUE, val |-> r.val, offset |-> off + 8]
             ELSE Raised
    ELSE LET r == UnpackU16(Slice(data, off, off + 2))
         IN  IF r.ok
             THEN [ok |-> TRUE,
                   val |-> DecodeReplace(Slice(data, off + 2, off + 2 + r.val)),
                   offset |-> off + 2 + r.val]
             ELSE Raised

\* the if/elif chain of lines 188-195: the Arrow type of a column's array
ArrayType(tag) ==
    IF tag = "INTEGER" THEN "int32"
    ELSE IF tag = "BIGINT" THEN "int64"
    ELSE IF tag = "DOUBLE" THEN "float64"
    ELSE "string"

\* the locals of _parse_batch(data, columns) on entry
ParseStart(data, columns) ==
    [phase |-> "header", data |-> data, columns |-> columns, offset |-> 0,
     num_rows |-> 0, row_idx |-> 0, col_idx |-> 0,
     col_data |-> <<>>, arrays |-> <<>>]

\* lines 148-155: the row count and the empty column lists
ParseHeaderStep(st) ==
    LET r == UnpackU32(Slice(st.data, st.offset, st.offset + 4))
    IN  IF ~r.ok THEN [st EXCEPT !.phase = "raised"]
        ELSE [st EXCEPT
                !.num_rows = r.val,
                !.offset = st.offset + 4,
                !.col_data = [i \in 1..Len(st.columns) |-> <<>>],
                !.phase = IF r.val = 0 \/ Len(st.columns) = 0
                          THEN "convert" ELSE "value"]

\* the loop position after the value at (row_idx, col_idx), lines 157-158
NextPosition(st) ==
    IF st.col_idx + 1 < Len(st.columns)
    THEN [row |-> st.row_idx, col |-> st.col_idx + 1]
    ELSE [row |-> st.row_idx + 1, col |-> 0]

\* ParseValueStep taking only the indicator 1 for null
ParseValueStepNullIsOne(st) ==
    IF st.offset >= Len(st.data) THEN [st EXCEPT !.phase = "raised"]
    ELSE
    LET is_null == st.data[st.offset + 1]
        off     == st.offset + 1
        ci      == st.col_idx + 1
        nxt     == NextPosition(st)
        phase   == IF nxt.row = st.num_rows THEN "convert" ELSE "value"
    IN  IF is_null = 1
        THEN [st EXCEPT !.offset = off,
                        !.col_data[ci] = Append(@, None),
                        !.row_idx = nxt.row, !.col_idx = nxt.col,
                        !.phase = phase]
        ELSE LET d == DecodeValue(st.data, off, st.columns[ci].type)
             IN  IF ~d.ok THEN [st EXCEPT !.offset = off, !.phase = "raised"]
                 ELSE [st EXCEPT !.offset = d.offset,
                                 !.col_data[ci] = Append(@, Some(d.val)),
                                 !.row_idx = nxt.row, !.col_idx = nxt.col,
                                 !.phase = phase]

\* lines 158-183: one iteration of the inner loop
ParseValueStep(st) ==
    IF st.offset >= Len(st.data) THEN [st EXCEPT !.phase = "raised"]
    ELSE
    LET is_null == st.data[st.offset + 1]
        off     == st.offset + 1
        ci      == st.col_idx + 1
        nxt     == NextPosition(st)
        phase   == IF nxt.row = st.num_rows THEN "convert" ELSE "value"
    IN  IF is_null # 0
        THEN [st EXCEPT !.offset = off,
                        !.col_data[ci] = Append(@, None),
                        !.row_idx = nxt.row, !.col_idx = nxt.col,
                        !.phase = phase]
        ELSE LET d == DecodeValue(st.data, off, st.columns[ci].type)
             IN  IF ~d.ok THEN [st EXCEPT !.offset = off, !.phase = "raised"]
                 ELSE [st EXCEPT !.offset = d.offset,
                                 !.col_data[ci] = Append(@, Some(d.val)),
                                 !.row_idx = nxt.row, !.col_idx = nxt.col,
                                 !.phase = phase]

\* ParseConvertStep with the arrays in the reverse of the columns' order
ParseConvertStepReversed(st) ==
    [st EXCEPT
        !.arrays = [i \in 1..Len(st.columns) |->
                      [type |-> ArrayType(st.columns[Len(st.columns) + 1 - i].type),
                       values |-> st.col_data[Len(st.columns) + 1 - i]]],
        !.phase = "done"]

\* lines 185-197: the column lists as Arrow arrays
ParseConvertStep(st) ==
    [st EXCEPT
        !.arrays = [i \in 1..Len(st.columns) |->
                      [type |-> ArrayType(st.columns[i].type),
                       values |-> st.col_data[i]]],
        !.phase = "done"]

ParseStep(st) ==
    IF st.phase = "header" THEN ParseHeaderStep(st)
    ELSE IF st.phase = "value" THEN ParseValueStep(st)
    ELSE ParseConvertStep(st)

\* the steps of _parse_batch until it returns or raises (nx: the locals
\* after one step, as a value)
RECURSIVE ParseRun(_)
ParseRun(st) ==
    IF st.phase \in {"done", "raised"} THEN st
    ELSE CHOOSE r \in {ParseRun(nx) : nx \in {ParseStep(st)}} : TRUE

\* self._parse_batch(data, columns): the arrays, or Raised
ParseBatch(data, columns) ==
    LET st == ParseRun(ParseStart(data, columns))
    IN  IF st.phase = "done" THEN Returned(st.arrays) ELSE Raised

\* pa.record_batch(arrays, schema=schema), line 105: raises unless the
\* arrays match the schema's fields and have one length
RecordBatch(arrays, schema) ==
    IF /\ Len(arrays) = Len(schema)
       /\ \A i \in 1..Len(arrays) :
            /\ arrays[i].type = schema[i].type
            /\ Len(arrays[i].values) = Len(arrays[1].values)
    THEN Returned([schema |-> schema, columns |-> arrays])
    ELSE Raised

\* batch.num_rows, line 108: the length of the first column, 0 without columns
NumRows(batch) ==
    IF Len(batch.columns) > 0 THEN Len(batch.columns[1].values) ELSE 0

(***************************************************************************)
(* The decode pipeline on its own: schema negotiation, _parse_batch run    *)
(* one loop iteration at a time, pa.record_batch.                          *)
(***************************************************************************)

MaxCols == 2      \* columns of a schema
MaxRows == 2      \* row count a payload declares
MaxChunks == 2    \* pieces a payload body is put together from

\* type tags a schema frame may carry: the four known ones, and spellings
\* the source does not know
TypeTags == {"INTEGER", "BIGINT", "DOUBLE", "VARCHAR", "integer"}

ColumnName(i) == IF i = 1 THEN "id" ELSE IF i = 2 THEN "v" ELSE "w"

RECURSIVE TagSeqs(_)
TagSeqs(n) ==
    IF n = 0 THEN {<<>>}
    ELSE TagSeqs(n - 1) \cup
         {Append(t, x) : t \in {u \in TagSeqs(n - 1) : Len(u) = n - 1},
                         x \in TypeTags}

\* schema_info['columns'] of the schemas the model negotiates
ColumnLists ==
    {[i \in 1..Len(t) |-> [name |-> ColumnName(i), type |-> t[i]]] :
        t \in TagSeqs(MaxCols)}

\* pieces of payload: two non-zero null indicators; a zero indicator and
\* 4 bytes; a zero indicator and 8 bytes; a zero indicator and a string of
\* declared length 1; a zero indicator and a string declaring 2 bytes with 1
ChunkMenu ==
    { <<1, 255>>,
      <<0, 0, 0, 0, 7>>,
      <<0, 255, 255, 255, 255, 255, 255, 255, 254>>,
      <<0, 0, 1, 97>>,
      <<0, 0, 2, 97>> }

RECURSIVE Bodies(_)
Bodies(n) ==
    IF n = 0 THEN {<<>>}
    ELSE Bodies(n - 1) \cup {b \o c : b \in Bodies(n - 1), c \in ChunkMenu}

\* batch payloads: a row count and a body, and one cut inside the row count
Payloads ==
    {<<0, 0>>} \cup
    {<<0, 0, 0, r>> \o b : r \in 0..MaxRows, b \in Bodies(MaxChunks)}

PIdle ==
    [stage |-> "idle", columns |-> <<>>, data |-> <<>>, schema |-> <<>>,
     st |-> ParseStart(<<>>, <<>>), batch |-> Raised]

InitParse ==
    /\ running = TRUE
    /\ sess = <<>>
    /\ sink = <<>>
    /\ budget = 0
    /\ \E columns \in ColumnLists, data \in Payloads :
          p = [PIdle EXCEPT !.stage = "negotiate",
                            !.columns = columns, !.data = data]

\* handle_client lines 65-78
Negotiate ==
    /\ p.stage = "negotiate"
    /\ p' = [p EXCEPT !.schema = BuildSchema(p.columns),
                      !.st = ParseStart(p.data, p.columns),
                      !.stage = "parse"]
    /\ UNCHANGED <<running, sess, sink, budget>>

\* _parse_batch lines 148-155
ParseHeader ==
    /\ p.stage = "parse" /\ p.st.phase = "header"
    /\ p' = [p EXCEPT !.st = ParseHeaderStep(p.st)]
    /\ UNCHANGED <<running, sess, sink, budget>>

\* _parse_batch lines 158-183, one value
ParseValue ==
    /\ p.stage = "parse" /\ p.st.phase = "value"
    /\ p' = [p EXCEPT !.st = ParseValueStep(p.st)]
    /\ UNCHANGED <<running, sess, sink, budget>>

\* _parse_batch lines 185-197
ParseConvert ==
    /\ p.stage = "parse" /\ p.st.phase = "convert"
    /\ p' = [p EXCEPT !.st = ParseConvertStep(p.st)]
    /\ UNCHANGED <<running, sess, sink, budget>>

\* handle_client line 105
MakeBatch ==
    /\ p.stage = "parse" /\ p.st.phase = "done"
    /\ p' = [p EXCEPT !.batch = RecordBatch(p.st.arrays, p.schema),
                      !.stage = "done"]
    /\ UNCHANGED <<running, sess, sink, budget>>

NextParse ==
    \/ Negotiate
    \/ ParseHeader
    \/ ParseValue
    \/ ParseConvert
    \/ MakeBatch

SpecParse == InitParse /\ [][NextParse]_vars

(***************************************************************************)
(* What the peers put on the wire                                          *)
(***************************************************************************)

Conns == {"c1", "c2"}

MaxBatches == 2   \* non-empty batch frames the peers send, all connections

\* the 4-byte big-endian length prefix a peer writes before n bytes
FrameHeader(n) == <<0, 0, (n \div 256) % 256, n % 256>>

\* query-id payloads of connection c: "Q1" / "Q2", and bytes that are not UTF-8
QueryIds(c) == {IF c = "c1" THEN <<81, 49>> ELSE <<81, 50>>, <<81, 255>>}

\* {"columns":[{"name":"id","type":"INTEGER"},{"name":"v","type":"VARCHAR"}]}
SchemaTextIdV ==
    << 123, 34, 99, 111, 108, 117, 109, 110, 115, 34, 58, 91, 123, 34, 110,
       97, 109, 101, 34, 58, 34, 105, 100, 34, 44, 34, 116, 121, 112, 101,
       34, 58, 34, 73, 78, 84, 69, 71, 69, 82, 34, 125, 44, 123, 34, 110,
       97, 109, 101, 34, 58, 34, 118, 34, 44, 34, 116, 121, 112, 101, 34,
       58, 34, 86, 65, 82, 67, 72, 65, 82, 34, 125, 93, 125 >>

\* {"columns":[{"name":"id","type":"integer"},{"name":"v","type":"BIGINT"}]}
SchemaTextUnknown ==
    << 123, 34, 99, 111, 108, 117, 109, 110, 115, 34, 58, 91, 123, 34, 110,
       97, 109, 101, 34, 58, 34, 105, 100, 34, 44, 34, 116, 121, 112, 101,
       34, 58, 34, 105, 110, 116, 101, 103, 101, 114, 34, 125, 44, 123, 34,
       110, 97, 109, 101, 34, 58, 34, 118, 34, 44, 34, 116, 121, 112, 101,
       34, 58, 34, 66, 73, 71, 73, 78, 84, 34, 125, 93, 125 >>

\* {"columns":[]}
SchemaTextEmpty ==
    << 123, 34, 99, 111, 108, 117, 109, 110, 115, 34, 58, 91, 93, 125 >>

\* {}
SchemaTextNoColumns ==
    << 123, 125 >>

\* {"columns"
SchemaTextBroken ==
    << 123, 34, 99, 111, 108, 117, 109, 110, 115, 34 >>

SchemaTexts ==
    {SchemaTextIdV, SchemaTextUnknown, SchemaTextEmpty, SchemaTextNoColumns,
     SchemaTextBroken}

\* rows (1, "a"), (null, "b") of an (INTEGER, VARCHAR) schema
PayloadTwoRows ==
    <<0, 0, 0, 2,  0, 0, 0, 0, 1,  0, 0, 1, 97,  1,  0, 0, 1, 98>>

\* no rows
PayloadNoRows == <<0, 0, 0, 0>>

\* one row (null, string declaring 5 bytes of which 1 is there)
PayloadShortString == <<0, 0, 0, 1,  1,  0, 0, 5, 97>>

\* two rows declared, two null indicators there
PayloadShortRows == <<0, 0, 0, 2,  1, 1>>

BatchMenu ==
    {PayloadTwoRows, PayloadNoRows, PayloadShortString, PayloadShortRows}

(***************************************************************************)
(* json.loads on the schema texts of the model                             *)
(***************************************************************************)

Column(name, type) == [name |-> name, type |-> type]

\* json.loads(schema_json), line 62: the parsed object, as whether it has
\* a "columns" member and that member; Raised for text that is not JSON
JsonLoads(text) ==
    IF text = SchemaTextIdV
    THEN Returned([has_columns |-> TRUE,
                   columns |-> <<Column("id", "INTEGER"), Column("v", "VARCHAR")>>])
    ELSE IF text = SchemaTextUnknown
    THEN Returned([has_columns |-> TRUE,
                   columns |-> <<Column("id", "integer"), Column("v", "BIGINT")>>])
    ELSE IF text = SchemaTextEmpty
    THEN Returned([has_columns |-> TRUE, columns |-> <<>>])
    ELSE IF text = SchemaTextNoColumns
    THEN Returned([has_columns |-> FALSE, columns |-> <<>>])
    ELSE Raised

(***************************************************************************)
(* The downstream Flight server, as seen through one DoPut stream          *)
(***************************************************************************)

Event(op, arg) == [op |-> op, arg |-> arg]

OpenEvent(path, schema) == Event("open", [path |-> path, schema |-> schema])

WriteEvent(batch) == Event("write", batch)

CloseEvent == Event("close", [closed |-> TRUE])

\* a stream nobody opened yet
NoStream == [events |-> <<>>, closed |-> FALSE]

(***************************************************************************)
(* handle_client                                                           *)
(***************************************************************************)

\* the locals of handle_client before its first statement (batch_len -1:
\* not assigned yet); rcvd keeps the batch payloads read from the socket, in
\* order
SessionInit ==
    [pc |-> "pending", query_id_len |-> 0, query_id |-> <<>>,
     schema_len |-> 0, columns |-> <<>>, schema |-> <<>>,
     client |-> "None", writer |-> "None",
     total_rows |-> 0, batch_count |-> 0, batch_len |-> -1, batch_data |-> <<>>,
     err |-> "none", sock |-> "open", sent |-> <<>>, logged |-> <<>>,
     rcvd |-> <<>>]

\* self._recv_exact(sock, n), lines 126-134: the n bytes the peer sent, or
\* ConnectionError when the peer closed first.  The peer's bytes come from
\* menu.
RecvExact(n, menu) ==
    {Raised} \cup {Returned(d) : d \in {m \in menu : Len(m) = n}}

\* Except in a handler that stops where the error happened
ExceptHang(s, kind) == [s EXCEPT !.err = kind, !.pc = "hung"]

\* Except in a handler that starts over after an error
ExceptRetry(s, kind) == [s EXCEPT !.err = kind, !.pc = "recv_qid_len"]

\* lines 115-116: the exception is caught and logged, control goes to finally
Except(s, kind) == [s EXCEPT !.err = kind, !.pc = "finally_writer"]

\* Writer with the writer kept in one place for all handler threads
SharedWriter(c) ==
    LET open == {d \in Conns : sess[d].writer # "None"}
    IN  IF open = {} THEN sess[c].writer
        ELSE sess[CHOOSE d \in open : TRUE].writer

\* the writer a session's write_batch and close calls go to
Writer(c) == sess[c].writer

\* Accept in a server that a failed handler has brought down
AcceptUnlessFailed(c) ==
    /\ running
    /\ \A d \in Conns : sess[d].err = "none"
    /\ sess[c].pc = "pending"
    /\ sess' = [sess EXCEPT ![c].pc = "recv_qid_len"]
    /\ UNCHANGED <<running, sink, budget, p>>

\* start(), lines 37-43: accept a connection and start its handler thread
Accept(c) ==
    /\ running
    /\ sess[c].pc = "pending"
    /\ sess' = [sess EXCEPT ![c].pc = "recv_qid_len"]
    /\ UNCHANGED <<running, sink, budget, p>>

\* lines 53-54
RecvQueryIdLen(c) ==
    /\ sess[c].pc = "recv_qid_len"
    /\ \E r \in RecvExact(4, {FrameHeader(Len(q)) : q \in QueryIds(c)}) :
          sess' = [sess EXCEPT ![c] =
            IF r.ok
            THEN [@ EXCEPT !.query_id_len = UnpackU32(r.val).val,
                           !.pc = "recv_qid"]
            ELSE Except(@, "ConnectionClosed")]
    /\ UNCHANGED <<running, sink, budget, p>>

\* lines 55-56
RecvQueryId(c) ==
    /\ sess[c].pc = "recv_qid"
    /\ \E r \in RecvExact(sess[c].query_id_len, QueryIds(c)) :
          sess' = [sess EXCEPT ![c] =
            IF ~r.ok THEN Except(@, "ConnectionClosed")
            ELSE LET d == DecodeStrict(r.val)
                 IN  IF d.ok
                     THEN [@ EXCEPT !.query_id = d.val, !.pc = "recv_schema_len"]
                     ELSE Except(@, "UnicodeDecodeError")]
    /\ UNCHANGED <<running, sink, budget, p>>

\* lines 59-60
RecvSchemaLen(c) ==
    /\ sess[c].pc = "recv_schema_len"
    /\ \E r \in RecvExact(4, {FrameHeader(Len(t)) : t \in SchemaTexts}) :
          sess' = [sess EXCEPT ![c] =
            IF r.ok
            THEN [@ EXCEPT !.schema_len = UnpackU32(r.val).val,
                           !.pc = "recv_schema"]
            ELSE Except(@, "ConnectionClosed")]
    /\ UNCHANGED <<running, sink, budget, p>>

\* NegotiateSchema taking an object without "columns" for one with none
NegotiateSchemaDefaultColumns(s, bytes) ==
    LET d == DecodeStrict(bytes)
        j == IF d.ok THEN JsonLoads(d.val) ELSE Raised
    IN  IF ~j.ok THEN Except(s, "SchemaParse")
        ELSE [s EXCEPT !.columns = j.val.columns,
                       !.schema = BuildSchema(j.val.columns),
                       !.pc = "do_put"]

\* lines 61-78 after the bytes arrived: decode, json.loads, ['columns'],
\* the Arrow schema
NegotiateSchema(s, bytes) ==
    LET d == DecodeStrict(bytes)
        j == IF d.ok THEN JsonLoads(d.val) ELSE Raised
    IN  IF ~j.ok \/ ~j.val.has_columns THEN Except(s, "SchemaParse")
        ELSE [s EXCEPT !.columns = j.val.columns,
                       !.schema = BuildSchema(j.val.columns),
                       !.pc = "do_put"]

\* lines 61-78
RecvSchema(c) ==
    /\ sess[c].pc = "recv_schema"
    /\ \E r \in RecvExact(sess[c].schema_len, SchemaTexts) :
          sess' = [sess EXCEPT ![c] =
            IF ~r.ok THEN Except(@, "ConnectionClosed")
            ELSE NegotiateSchema(@, r.val)]
    /\ UNCHANGED <<running, sink, budget, p>>

\* lines 80-89: the Flight client and the DoPut stream.  The constructor
\* may raise, do_put may raise, or the stream opens.
DoPut(c) ==
    /\ sess[c].pc = "do_put"
    /\ \/ /\ sess' = [sess EXCEPT ![c] = Except(@, "ForwarderOpen")]
          /\ UNCHANGED sink
       \/ /\ sess' = [sess EXCEPT ![c] =
                        Except([@ EXCEPT !.client = c], "ForwarderOpen")]
          /\ UNCHANGED sink
       \/ /\ sess' = [sess EXCEPT ![c] =
                        [@ EXCEPT !.client = c, !.writer = c,
                                  !.total_rows = 0, !.batch_count = 0,
                                  !.pc = "recv_batch_len"]]
          /\ sink' = [sink EXCEPT ![c].events =
                        <<OpenEvent(sess[c].query_id, sess[c].schema)>>]
    /\ UNCHANGED <<running, budget, p>>

\* lines 94-98: the length of the next batch frame, 0 ends the loop
RecvBatchLen(c) ==
    /\ sess[c].pc = "recv_batch_len"
    /\ \/ /\ sess' = [sess EXCEPT ![c] = Except(@, "ConnectionClosed")]
          /\ UNCHANGED budget
       \/ /\ sess' = [sess EXCEPT ![c] =
                        [@ EXCEPT !.batch_len = UnpackU32(FrameHeader(0)).val,
                                  !.pc = "close"]]
          /\ UNCHANGED budget
       \/ /\ budget > 0
          /\ \E r \in RecvExact(4, {FrameHeader(Len(b)) : b \in BatchMenu}) :
                /\ r.ok
                /\ sess' = [sess EXCEPT ![c] =
                              [@ EXCEPT !.batch_len = UnpackU32(r.val).val,
                                        !.pc = "recv_batch"]]
          /\ budget' = budget - 1
    /\ UNCHANGED <<running, sink, p>>

\* line 101
RecvBatch(c) ==
    /\ sess[c].pc = "recv_batch"
    /\ \E r \in RecvExact(sess[c].batch_len, BatchMenu) :
          sess' = [sess EXCEPT ![c] =
            IF ~r.ok THEN Except(@, "ConnectionClosed")
            ELSE [@ EXCEPT !.batch_data = r.val,
                           !.rcvd = Append(@, r.val),
                           !.pc = "write_batch"]]
    /\ UNCHANGED <<running, sink, budget, p>>

\* WriteBatch with the new batch put before the ones written earlier
WriteBatchNewestFirst(c) ==
    /\ sess[c].pc = "write_batch"
    /\ LET arrays == ParseBatch(sess[c].batch_data, sess[c].columns)
           batch  == IF arrays.ok
                     THEN RecordBatch(arrays.val, sess[c].schema)
                     ELSE Raised
       IN  IF ~batch.ok
           THEN /\ sess' = [sess EXCEPT ![c] = Except(@, "BatchDecode")]
                /\ UNCHANGED sink
           ELSE \/ /\ sess' = [sess EXCEPT ![c] = Except(@, "ForwarderWrite")]
                   /\ UNCHANGED sink
                \/ /\ sink' = [sink EXCEPT ![Writer(c)].events =
                                 <<Head(@), WriteEvent(batch.val)>> \o Tail(@)]
                   /\ sess' = [sess EXCEPT ![c] =
                        [@ EXCEPT !.total_rows = @ + NumRows(batch.val),
                                  !.batch_count = @ + 1,
                                  !.pc = "recv_batch_len"]]
    /\ UNCHANGED <<running, budget, p>>

\* lines 104-109: decode the payload, build the record batch, write it and
\* count it; the decoder, pa.record_batch or write_batch may raise
WriteBatch(c) ==
    /\ sess[c].pc = "write_batch"
    /\ LET arrays == ParseBatch(sess[c].batch_data, sess[c].columns)
           batch  == IF arrays.ok
                     THEN RecordBatch(arrays.val, sess[c].schema)
                     ELSE Raised
       IN  IF ~batch.ok
           THEN /\ sess' = [sess EXCEPT ![c] = Except(@, "BatchDecode")]
                /\ UNCHANGED sink
           ELSE \/ /\ sess' = [sess EXCEPT ![c] = Except(@, "ForwarderWrite")]
                   /\ UNCHANGED sink
                \/ /\ sink' = [sink EXCEPT ![Writer(c)].events =
                                 Append(@, WriteEvent(batch.val))]
                   /\ sess' = [sess EXCEPT ![c] =
                        [@ EXCEPT !.total_rows = @ + NumRows(batch.val),
                                  !.batch_count = @ + 1,
                                  !.pc = "recv_batch_len"]]
    /\ UNCHANGED <<running, budget, p>>

\* CloseWriter with the error of close() swallowed: the handler goes on to
\* the acknowledgment
CloseWriterIgnoringError(c) ==
    /\ sess[c].pc = "close"
    /\ \E closed \in BOOLEAN :
          sink' = [sink EXCEPT ![Writer(c)].events = Append(@, CloseEvent),
                               ![Writer(c)].closed = closed]
    /\ sess' = [sess EXCEPT ![c].pc = "sendall"]
    /\ UNCHANGED <<running, budget, p>>

\* line 111: writer.close() returns, or raises with the stream finalized
\* or not
CloseWriter(c) ==
    /\ sess[c].pc = "close"
    /\ \/ /\ sink' = [sink EXCEPT ![Writer(c)].events = Append(@, CloseEvent),
                                  ![Writer(c)].closed = TRUE]
          /\ sess' = [sess EXCEPT ![c].pc = "sendall"]
       \/ /\ \E closed \in BOOLEAN :
                sink' = [sink EXCEPT ![Writer(c)].events = Append(@, CloseEvent),
                                     ![Writer(c)].closed = closed]
          /\ sess' = [sess EXCEPT ![c] = Except(@, "ForwarderClose")]
    /\ UNCHANGED <<running, budget, p>>

\* the acknowledgment, b'OK'
Ack == <<79, 75>>

\* SendAck with the totals logged before the acknowledgment is sent
SendAckLoggingFirst(c) ==
    /\ sess[c].pc = "sendall"
    /\ \/ sess' = [sess EXCEPT ![c] =
                     [@ EXCEPT !.sent = @ \o Ack,
                               !.logged = <<sess[c].total_rows, sess[c].batch_count>>,
                               !.pc = "finally_writer"]]
       \/ \E n \in 0..(Len(Ack) - 1) :
             sess' = [sess EXCEPT ![c] =
                        Except([@ EXCEPT !.sent = @ \o SubSeq(Ack, 1, n),
                                         !.logged = <<sess[c].total_rows,
                                                      sess[c].batch_count>>],
                               "AckSend")]
    /\ UNCHANGED <<running, sink, budget, p>>

\* lines 112-113: sendall sends both bytes and the totals are logged, or it
\* raises after sending none or one of them
SendAck(c) ==
    /\ sess[c].pc = "sendall"
    /\ \/ sess' = [sess EXCEPT ![c] =
                     [@ EXCEPT !.sent = @ \o Ack,
                               !.logged = <<sess[c].total_rows, sess[c].batch_count>>,
                               !.pc = "finally_writer"]]
       \/ \E n \in 0..(Len(Ack) - 1) :
             sess' = [sess EXCEPT ![c] =
                        Except([@ EXCEPT !.sent = @ \o SubSeq(Ack, 1, n)],
                               "AckSend")]
    /\ UNCHANGED <<running, sink, budget, p>>

\* FinallyWriter that closes the writer of a session without error only
FinallyWriterOnSuccess(c) ==
    /\ sess[c].pc = "finally_writer"
    /\ IF sess[c].writer # "None" /\ sess[c].err = "none"
       THEN sink' = [sink EXCEPT ![Writer(c)].events = Append(@, CloseEvent),
                                 ![Writer(c)].closed = TRUE]
       ELSE UNCHANGED sink
    /\ sess' = [sess EXCEPT ![c].pc = "finally_socket"]
    /\ UNCHANGED <<running, budget, p>>

\* FinallyWriter without the try/except: the error of closing a closed
\* stream leaves the finally block
FinallyWriterRaising(c) ==
    /\ sess[c].pc = "finally_writer"
    /\ IF sess[c].writer # "None"
       THEN sink' = [sink EXCEPT ![Writer(c)].events = Append(@, CloseEvent),
                                 ![Writer(c)].closed = TRUE]
       ELSE UNCHANGED sink
    /\ sess' = [sess EXCEPT ![c] =
                  IF sess[c].writer # "None" /\ sink[Writer(c)].closed
                  THEN [@ EXCEPT !.err = "ForwarderClose", !.pc = "done"]
                  ELSE [@ EXCEPT !.pc = "finally_socket"]]
    /\ UNCHANGED <<running, budget, p>>

\* FinallyWriter that leaves a writer alone whose stream is closed already
FinallyWriterUnlessClosed(c) ==
    /\ sess[c].pc = "finally_writer"
    /\ IF sess[c].writer # "None" /\ ~sink[Writer(c)].closed
       THEN sink' = [sink EXCEPT ![Writer(c)].events = Append(@, CloseEvent),
                                 ![Writer(c)].closed = TRUE]
       ELSE UNCHANGED sink
    /\ sess' = [sess EXCEPT ![c].pc = "finally_socket"]
    /\ UNCHANGED <<running, budget, p>>

\* lines 118-120: if writer, close it again; whatever it raises is dropped.
\* A stream that is already closed stays as it is.
FinallyWriter(c) ==
    /\ sess[c].pc = "finally_writer"
    /\ IF sess[c].writer # "None"
       THEN sink' = [sink EXCEPT ![Writer(c)].events = Append(@, CloseEvent),
                                 ![Writer(c)].closed = TRUE]
       ELSE UNCHANGED sink
    /\ sess' = [sess EXCEPT ![c].pc = "finally_socket"]
    /\ UNCHANGED <<running, budget, p>>

\* FinallySocket that closes the socket of a session without error only
FinallySocketOnSuccess(c) ==
    /\ sess[c].pc = "finally_socket"
    /\ sess' = [sess EXCEPT ![c] =
                  [@ EXCEPT !.client = IF @ = "None" THEN "None" ELSE "closed",
                            !.sock = IF sess[c].err = "none"
                                     THEN "closed" ELSE @,
                            !.pc = "done"]]
    /\ UNCHANGED <<running, sink, budget, p>>

\* lines 121-124: client.close() if there is a client, client_socket.close()
FinallySocket(c) ==
    /\ sess[c].pc = "finally_socket"
    /\ sess' = [sess EXCEPT ![c] =
                  [@ EXCEPT !.client = IF @ = "None" THEN "None" ELSE "closed",
                            !.sock = "closed", !.pc = "done"]]
    /\ UNCHANGED <<running, sink, budget, p>>

Init ==
    /\ running = TRUE
    /\ sess = [c \in Conns |-> SessionInit]
    /\ sink = [c \in Conns |-> NoStream]
    /\ budget = MaxBatches
    /\ p = PIdle

Next ==
    \E c \in Conns :
        \/ Accept(c)
        \/ RecvQueryIdLen(c)
        \/ RecvQueryId(c)
        \/ RecvSchemaLen(c)
        \/ RecvSchema(c)
        \/ DoPut(c)
        \/ RecvBatchLen(c)
        \/ RecvBatch(c)
        \/ WriteBatch(c)
        \/ CloseWriter(c)
        \/ SendAck(c)
        \/ FinallyWriter(c)
        \/ FinallySocket(c)

Spec == Init /\ [][Next]_vars

(***************************************************************************)
(* Properties of handle_client                                             *)
(***************************************************************************)

\* close calls the stream opened by connection c has seen
CloseCalls(c) == Len(SelectSeq(sink[c].events, LAMBDA e : e.op = "close"))

\* write calls the stream opened by connection c has seen
WriteCalls(c) == Len(SelectSeq(sink[c].events, LAMBDA e : e.op = "write"))

\* the failures the specification lists for a session
ListedFailures ==
    {"ConnectionClosed", "UnicodeDecodeError", "SchemaParse", "BatchDecode",
     "ForwarderOpen", "ForwarderWrite", "ForwarderClose"}

\* C1: the bytes sent to the client are a prefix of one "OK"; a byte is sent
\* only after the zero-length frame was read and writer.close() of line 111
\* returned (the stream is closed, no error but one of sendall itself); a
\* session that failed for a listed reason has sent nothing.
C1_AckOnlyAfterCleanClose ==
    \A c \in Conns :
        LET s == sess[c]
        IN  /\ s.sent \in {<<>>, SubSeq(Ack, 1, 1), Ack}
            /\ s.sent # <<>> =>
                 /\ s.batch_len = 0
                 /\ s.pc \in {"finally_writer", "finally_socket", "done"}
                 /\ s.err \in {"none", "AckSend"}
                 /\ s.writer # "None"
                 /\ sink[s.writer].closed
                 /\ CloseCalls(s.writer) >= 1
                 /\ WriteCalls(s.writer) = Len(s.rcvd)
            /\ s.err \in ListedFailures => s.sent = <<>>

\* a session that got its "OK", and one that failed while streaming
C1_Witness ==
    \E c, d \in Conns :
        /\ sess[c].pc = "done" /\ sess[c].sent = Ack /\ sess[c].err = "none"
        /\ sess[d].pc = "done" /\ sess[d].err = "ForwarderClose"
        /\ sess[d].sent = <<>>

\* C2 as claimed: a stream that was opened has seen exactly one close call
\* when its session has ended.
C2_ClosedExactlyOnce ==
    \A c \in Conns :
        (sess[c].pc = "done" /\ sess[c].writer # "None") => CloseCalls(c) = 1

\* C2 amended: a stream that was opened sees at most two close calls, and
\* when its session has ended it has seen two if the zero-length frame was
\* read (line 111, and line 119 again) and one otherwise (line 119).
C2_ClosedOnceOrTwice ==
    \A c \in Conns :
        LET s == sess[c]
        IN  /\ CloseCalls(c) <= 2
            /\ (s.pc = "done" /\ s.writer # "None") =>
                  CloseCalls(c) = IF s.batch_len = 0 THEN 2 ELSE 1
            /\ s.writer = "None" => CloseCalls(c) = 0

\* one session ended after the zero-length frame, one failed while streaming
C2_Witness ==
    \E c, d \in Conns :
        /\ sess[c].pc = "done" /\ sess[c].err = "none" /\ CloseCalls(c) = 2
        /\ sess[d].pc = "done" /\ sess[d].err = "ConnectionClosed"
        /\ sess[d].writer # "None" /\ CloseCalls(d) = 1

\* The batch layout of the wire format read strictly: whether the payload
\* ends before value k of n, the values from offset off on
RECURSIVE LayoutShort(_, _, _, _, _)
LayoutShort(data, columns, off, k, n) ==
    IF k = n THEN FALSE
    ELSE IF off >= Len(data) THEN TRUE
    ELSE LET tag  == columns[(k % Len(columns)) + 1].type
             left == Len(data) - (off + 1)
         IN  IF data[off + 1] # 0
             THEN LayoutShort(data, columns, off + 1, k + 1, n)
             ELSE IF tag = "INTEGER"
             THEN left < 4 \/ LayoutShort(data, columns, off + 5, k + 1, n)
             ELSE IF tag \in {"BIGINT", "DOUBLE"}
             THEN left < 8 \/ LayoutShort(data, columns, off + 9, k + 1, n)
             ELSE \/ left < 2
                  \/ LET len == data[off + 2] * 256 + data[off + 3]
                     IN  \/ left < 2 + len
                         \/ LayoutShort(data, columns, off + 3 + len, k + 1, n)

\* some length the payload declares exceeds the bytes that remain in it
Truncated(data, columns) ==
    \/ Len(data) < 4
    \/ LayoutShort(data, columns, 4,
                   0, UnpackU32(SubSeq(data, 1, 4)).val * Len(columns))

\* C3 as claimed: a batch payload in which a declared length exceeds the
\* bytes that remain is never written to the forwarder, and its session
\* ends failed, without acknowledgment, the socket closed.
C3_TruncatedBatchFailsSession ==
    \A c \in Conns :
        LET s == sess[c]
        IN  \A i \in 1..Len(s.rcvd) :
                Truncated(s.rcvd[i], s.columns) =>
                    /\ WriteCalls(c) < i
                    /\ s.pc = "done" =>
                         s.err # "none" /\ s.sent = <<>> /\ s.sock = "closed"

\* the query id connection c's peer sends, as text
QueryIdText(c) == IF c = "c1" THEN <<81, 49>> ELSE <<81, 50>>

\* the write call for a payload decoded under the columns of a schema
DecodedWrite(data, columns) ==
    WriteEvent(RecordBatch(ParseBatch(data, columns).val,
                           BuildSchema(columns)).val)

\* the stream events of a session that read the batch frames rcvd: the open,
\* the writes in the order of the frames, and closes close calls
StreamEvents(c, closes) ==
    <<OpenEvent(QueryIdText(c), BuildSchema(sess[c].columns))>>
    \o [i \in 1..Len(sess[c].rcvd) |->
            DecodedWrite(sess[c].rcvd[i], sess[c].columns)]
    \o [i \in 1..closes |-> CloseEvent]

\* the columns of the batch of rows (1, "a"), (null, "b")
TwoRowsColumns ==
    << [type |-> "int32", values |-> <<Some(1), None>>],
       [type |-> "string", values |-> <<Some(<<97>>), Some(<<98>>)>>] >>

\* C4 as claimed: a session that ended without error has shown its stream
\* one open, the writes in frame order and one close, nothing else.
C4_OpenWritesOneClose ==
    \A c \in Conns :
        (sess[c].pc = "done" /\ sess[c].err = "none") =>
            sink[c].events = StreamEvents(c, 1)

\* C4 amended: when the "OK" has been sent the stream has seen exactly the
\* open named by the query id with the negotiated schema, the batches in
\* frame order and one close; the finally block then adds a second close
\* and nothing else.  The batch of the two rows (1, "a"), (null, "b") holds
\* id = 1, absent and v = "a", "b".
C4_OpenWritesCloseThenAck ==
    \A c \in Conns :
        LET s == sess[c]
        IN  s.sent = Ack =>
              /\ sink[c].events =
                   StreamEvents(c, IF s.pc = "finally_writer" THEN 1 ELSE 2)
              /\ \A i \in 1..Len(s.rcvd) :
                    (s.rcvd[i] = PayloadTwoRows /\ s.schema =
                        <<[name |-> "id", type |-> "int32"],
                          [name |-> "v", type |-> "string"]>>)
                    => sink[c].events[i + 1].arg.columns = TwoRowsColumns

\* a session acknowledged after two different batches
C4_Witness ==
    \E c \in Conns :
        /\ sess[c].pc = "done" /\ sess[c].sent = Ack
        /\ sess[c].rcvd = <<PayloadTwoRows, PayloadNoRows>>
        /\ sess[c].columns = <<Column("id", "INTEGER"), Column("v", "VARCHAR")>>

RECURSIVE SumRows(_)
SumRows(events) ==
    IF events = <<>> THEN 0
    ELSE (IF Head(events).op = "write" THEN NumRows(Head(events).arg) ELSE 0)
         + SumRows(Tail(events))

\* C5: the stream a session opened is named by that session's query id and
\* carries its schema; its writes are the session's own frames, decoded
\* with its own columns, in order; the session's counters count its own
\* stream; two open streams never have one name.
C5_SessionsDoNotMix ==
    /\ \A c \in Conns :
          LET s == sess[c]
              e == sink[c].events
          IN  IF e = <<>> THEN s.writer = "None"
              ELSE /\ s.writer = c
                   /\ e[1] = OpenEvent(QueryIdText(c), BuildSchema(s.columns))
                   /\ WriteCalls(c) = s.batch_count
                   /\ s.batch_count <= Len(s.rcvd)
                   /\ \A i \in 1..s.batch_count :
                         e[i + 1] = DecodedWrite(s.rcvd[i], s.columns)
                   /\ s.total_rows = SumRows(e)
    /\ \A c, d \in Conns :
          (c # d /\ sink[c].events # <<>> /\ sink[d].events # <<>>)
             => sink[c].events[1].arg.path # sink[d].events[1].arg.path

\* two sessions with different schemas, each with a batch written to its
\* open stream
C5_Witness ==
    /\ \A c \in Conns : WriteCalls(c) = 1 /\ CloseCalls(c) = 0
    /\ sess["c1"].columns # sess["c2"].columns
    /\ sess["c1"].rcvd # sess["c2"].rcvd

\* C6: a step of one session, a failing one included, leaves every other
\* session's locals and stream as they are and the server running; a
\* connection that is waiting can be accepted whatever became of the others.
C6_ErrorsStayLocal ==
    /\ [][\A c \in Conns :
             sess'[c] # sess[c] =>
                /\ \A d \in Conns \ {c} :
                      sess'[d] = sess[d] /\ sink'[d] = sink[d]
                /\ running' = running]_vars
    /\ [](/\ running
          /\ \A c \in Conns : sess[c].pc = "pending" => ENABLED Accept(c))

\* one session has failed and ended while the other is still to be accepted
C6_Witness ==
    \E c, d \in Conns :
        /\ sess[c].pc = "done" /\ sess[c].err = "BatchDecode"
        /\ sess[d].pc = "pending"

\* C7: when handle_client has returned the client socket is closed and a
\* stream that was opened has seen a close; the close of the finally block
\* changes neither the outcome of the session nor a stream that is closed.
C7_CleanupOnEveryExit ==
    /\ [](\A c \in Conns :
             /\ sess[c].pc = "done" =>
                  /\ sess[c].sock = "closed"
                  /\ sess[c].writer # "None" => CloseCalls(c) >= 1
             /\ sess[c].sock = "closed" => sess[c].pc = "done")
    /\ [][\A c \in Conns :
             (sess[c].pc = "finally_writer" /\ sess'[c] # sess[c]) =>
                /\ sess'[c] = [sess[c] EXCEPT !.pc = "finally_socket"]
                /\ sink[c].closed =>
                      sink'[c] = [sink[c] EXCEPT !.events = Append(@, CloseEvent)]
          ]_vars

\* a session that ended after closing its stream twice, the socket closed
C7_Witness ==
    \E c \in Conns :
        /\ sess[c].pc = "done" /\ sess[c].sock = "closed"
        /\ sess[c].logged # <<>> /\ CloseCalls(c) = 2 /\ sink[c].closed

\* the row count a payload declares
DeclaredRows(data) == UnpackU32(SubSeq(data, 1, 4)).val

RECURSIVE SumDeclared(_)
SumDeclared(payloads) ==
    IF payloads = <<>> THEN 0
    ELSE DeclaredRows(Head(payloads)) + SumDeclared(Tail(payloads))

\* C8 as claimed: the totals logged are the sum of the row counts the
\* received payloads declare and the number of frames; in the loop
\* total_rows is the sum of the rows of the batches written so far.
C8_TotalsMatchDeclaredRows ==
    \A c \in Conns :
        LET s == sess[c]
        IN  /\ s.logged # <<>> =>
                 s.logged = <<SumDeclared(s.rcvd), Len(s.rcvd)>>
            /\ s.total_rows = SumRows(sink[c].events)
            /\ s.batch_count = WriteCalls(c)

(***************************************************************************)
(* Properties of the decoder                                               *)
(***************************************************************************)

KnownTags == {"INTEGER", "BIGINT", "DOUBLE", "VARCHAR"}

\* bytes a present value of a column takes after its null indicator, the
\* indicator at offset off: 4, 8, or 2 + the declared length of a string
ValueWidth(data, off, tag) ==
    IF tag = "INTEGER" THEN 4
    ELSE IF tag \in {"BIGINT", "DOUBLE"} THEN 8
    ELSE 2 + data[off + 2] * 256 + data[off + 3]

\* C9: in an iteration of the inner loop a non-zero null indicator, whatever
\* its value and whatever the column type, appends an absent value to that
\* column alone and moves the offset by 1; a zero indicator whose value
\* decodes moves it by 1 + the width of the type and appends a present value.
C9_NullIndicatorConsumesOneByte ==
    [][(p.stage = "parse" /\ p.st.phase = "value" /\ p'.st # p.st) =>
         LET st == p.st
             nx == p'.st
             ci == st.col_idx + 1
         IN  IF st.offset >= Len(st.data) THEN nx.phase = "raised"
             ELSE IF st.data[st.offset + 1] # 0
             THEN /\ nx.phase # "raised"
                  /\ nx.offset = st.offset + 1
                  /\ nx.col_data = [st.col_data EXCEPT ![ci] = Append(@, None)]
             ELSE nx.phase # "raised" =>
                  /\ nx.offset = st.offset + 1
                        + ValueWidth(st.data, st.offset, st.columns[ci].type)
                  /\ Len(nx.col_data[ci]) = Len(st.col_data[ci]) + 1
                  /\ ~nx.col_data[ci][Len(nx.col_data[ci])].null
      ]_vars

\* the indicators 1 and 255 of a two-row payload, each read as one absent
\* value of an INTEGER column, nothing after them taken as data
C9_Witness ==
    /\ p.st.phase = "done"
    /\ p.columns = <<Column("id", "INTEGER")>>
    /\ p.data = <<0, 0, 0, 2, 1, 255>>
    /\ p.st.col_data = <<<<None, None>>>>
    /\ p.st.offset = 6

\* C10: a column whose type tag is none of INTEGER, BIGINT, DOUBLE, VARCHAR
\* (as spelled) becomes a string field; the arrays the decoder returns have
\* the types of the schema's fields, so pa.record_batch accepts them; a
\* present value of such a column is read as a 2-byte length and that many
\* bytes of text.
C10_UnknownTagIsString ==
    /\ [](p.stage \in {"parse", "done"} =>
            /\ Len(p.schema) = Len(p.columns)
            /\ \A i \in 1..Len(p.columns) :
                  /\ p.columns[i].type \notin KnownTags =>
                        p.schema[i].type = "string"
                  /\ p.st.phase = "done" =>
                        p.st.arrays[i].type = p.schema[i].type
            /\ p.stage = "done" => p.batch.ok)
    /\ [][(/\ p.stage = "parse" /\ p.st.phase = "value" /\ p'.st # p.st
           /\ p.st.columns[p.st.col_idx + 1].type \notin KnownTags
           /\ p.st.offset < Len(p.st.data)
           /\ p.st.data[p.st.offset + 1] = 0) =>
             LET st  == p.st
                 nx  == p'.st
                 ci  == st.col_idx + 1
                 off == st.offset + 1
             IN  IF Len(st.data) - off < 2 THEN nx.phase = "raised"
                 ELSE LET len == st.data[off + 1] * 256 + st.data[off + 2]
                      IN  /\ nx.phase # "raised"
                          /\ nx.offset = off + 2 + len
                          /\ nx.col_data[ci] =
                               Append(st.col_data[ci],
                                      Some(DecodeReplace(
                                             Slice(st.data, off + 2,
                                                   off + 2 + len))))
         ]_vars

\* a batch built for a schema with an "integer" column that holds a present
\* value
C10_Witness ==
    /\ p.stage = "done" /\ p.batch.ok
    /\ \E i \in 1..Len(p.columns) :
          /\ p.columns[i].type = "integer"
          /\ \E k \in 1..Len(p.st.arrays[i].values) :
                p.st.arrays[i].values[k] = Some(<<97>>)

(***************************************************************************)
(* The batch layout written by the peer (the Format of _parse_batch), and  *)
(* the decoder run on what it writes                                       *)
(***************************************************************************)

\* struct.pack('!I', n) for n < 2^31
PackU32(n) ==
    <<n \div 16777216, (n \div 65536) % 256, (n \div 256) % 256, n % 256>>

\* struct.pack('!H', n)
PackU16(n) == <<n \div 256, n % 256>>

\* struct.pack('!i', v): two's complement, big-endian
PackI32(v) ==
    <<(v \div 16777216) % 256, (v \div 65536) % 256, (v \div 256) % 256,
      v % 256>>

\* struct.pack('!q', v), v kept as <<hi, mid, low>>
PackI64(v) == PackI32(v[1]) \o PackU16(v[2]) \o PackU16(v[3])

\* one code point as UTF-8
EncodeCodePoint(c) ==
    IF c < 128 THEN <<c>>
    ELSE IF c < 2048 THEN <<192 + (c \div 64), 128 + (c % 64)>>
    ELSE IF c < 65536
    THEN <<224 + (c \div 4096), 128 + ((c \div 64) % 64), 128 + (c % 64)>>
    ELSE <<240 + (c \div 262144), 128 + ((c \div 4096) % 64),
           128 + ((c \div 64) % 64), 128 + (c % 64)>>

\* str.encode('utf-8')
RECURSIVE EncodeUtf8(_)
EncodeUtf8(s) ==
    IF s = <<>> THEN <<>> ELSE EncodeCodePoint(Head(s)) \o EncodeUtf8(Tail(s))

\* Format, lines 142-146: the null indicator (1 = null, 0 = not null) and,
\* if not null, the value by the column's type
EncodeCell(tag, cell) ==
    IF cell.null THEN <<1>>
    ELSE IF tag = "INTEGER" THEN <<0>> \o PackI32(cell.val)
    ELSE IF tag = "BIGINT" THEN <<0>> \o PackI64(cell.val)
    ELSE LET b == EncodeUtf8(cell.val) IN <<0>> \o PackU16(Len(b)) \o b

RECURSIVE EncodeRow(_, _, _)
EncodeRow(columns, row, i) ==
    IF i > Len(columns) THEN <<>>
    ELSE EncodeCell(columns[i].type, row[i]) \o EncodeRow(columns, row, i + 1)

RECURSIVE EncodeRows(_, _, _)
EncodeRows(columns, table, r) ==
    IF r > Len(table) THEN <<>>
    ELSE EncodeRow(columns, table[r], 1) \o EncodeRows(columns, table, r + 1)

\* Format, lines 139-146: 4 bytes num_rows, then for each row, for each
\* column, the cell
EncodeBatch(columns, table) ==
    PackU32(Len(table)) \o EncodeRows(columns, table, 1)

\* values of the three types the Format lists: the ends of the ranges, 0 and
\* -1; the empty string, ASCII, 2-, 3- and 4-byte code points
IntegerValues == <<0, -1, 2147483647, -2147483647 - 1>>

BigintValues ==
    << <<0, 0, 0>>, <<-1, 65535, 65535>>, <<2147483647, 65535, 65535>>,
       <<-2147483647 - 1, 0, 0>> >>

VarcharValues == << <<>>, <<97, 98>>, <<233, 8364>>, <<128512, 65533>> >>

ValuesOf(tag) ==
    IF tag = "INTEGER" THEN IntegerValues
    ELSE IF tag = "BIGINT" THEN BigintValues
    ELSE VarcharValues

RoundTripTags == {"INTEGER", "BIGINT", "VARCHAR"}

RoundTripColumnLists ==
    {c \in ColumnLists : \A i \in 1..Len(c) : c[i].type \in RoundTripTags}

\* the tables of a schema: any number of rows up to MaxRows, nulls anywhere;
\* the cell at (r, i), when present, holds value number k + r + i of its
\* type, k the same for the whole table
Tables(columns) ==
    {[r \in 1..n |-> [i \in 1..Len(columns) |->
         IF <<r, i>> \in nulls THEN None
         ELSE Some(ValuesOf(columns[i].type)[((k + r + i) % 4) + 1])]] :
       n \in 0..MaxRows,
       nulls \in SUBSET ((1..MaxRows) \X (1..Len(columns))),
       k \in 0..3}

\* column i of a table
TableColumn(table, i) == [r \in 1..Len(table) |-> table[r][i]]

InitRoundTrip ==
    /\ running = TRUE
    /\ sess = <<>>
    /\ sink = <<>>
    /\ budget = 0
    /\ \E columns \in RoundTripColumnLists :
         \E table \in Tables(columns) :
            p = [stage |-> "negotiate", columns |-> columns,
                 data |-> EncodeBatch(columns, table), schema |-> <<>>,
                 st |-> ParseStart(<<>>, <<>>), batch |-> Raised,
                 table |-> table]

SpecRoundTrip == InitRoundTrip /\ [][NextParse]_vars

\* C11: the decoder does not raise on the encoding of a table, and the
\* arrays it returns are the table's columns, one per schema column in
\* order, value for value and null for null.
C11_RoundTrip ==
    /\ p.st.phase # "raised"
    /\ p.st.phase = "done" =>
          /\ Len(p.st.arrays) = Len(p.columns)
          /\ \A i \in 1..Len(p.columns) :
                p.st.arrays[i].values = TableColumn(p.table, i)

\* a two-row table of an (INTEGER, VARCHAR) schema decoded: a null, the
\* negative end of the INTEGER range and a string outside ASCII
C11_Witness ==
    /\ p.st.phase = "done"
    /\ Len(p.columns) = 2 /\ Len(p.table) = 2
    /\ p.columns[1].type = "INTEGER" /\ p.columns[2].type = "VARCHAR"
    /\ p.st.arrays[1].values = <<None, Some(-2147483647 - 1)>>
    /\ p.st.arrays[2].values[1] = Some(<<128512, 65533>>)

(***************************************************************************)
(* _recv_exact, one sock.recv at a time                                    *)
(***************************************************************************)

MaxStream == 4    \* bytes the peer sends before it closes
MaxRecv == 4      \* the n of _recv_exact(sock, n)

RECURSIVE ByteStrings(_)
ByteStrings(len) ==
    IF len = 0 THEN {<<>>}
    ELSE ByteStrings(len - 1) \cup
         {Append(b, x) : b \in {u \in ByteStrings(len - 1) : Len(u) = len - 1},
                         x \in {7, 8}}

\* the ways a peer ends its stream: an orderly shutdown, after which
\* sock.recv returns b'', or a reset, after which it raises
Endings == {"fin", "rst"}

\* the locals of _recv_exact(sock, n) on entry, line 128; stream and ending
\* are the peer's, pos the bytes taken out of the socket, reads the calls of
\* sock.recv
InitRecv ==
    /\ running = TRUE
    /\ sess = <<>>
    /\ sink = <<>>
    /\ budget = 0
    /\ \E stream \in ByteStrings(MaxStream), ending \in Endings,
          n \in 0..MaxRecv :
          p = [stage |-> "recv", stream |-> stream, ending |-> ending,
               pos |-> 0, n |-> n, data |-> <<>>, reads |-> 0,
               pc |-> "loop", err |-> "none"]

\* RecvRead asking the socket for n bytes each time
RecvReadWholeCount ==
    /\ p.stage = "recv" /\ p.pc = "loop"
    /\ Len(p.data) < p.n
    /\ LET avail == Len(p.stream) - p.pos
       IN  IF avail = 0
           THEN p' = [p EXCEPT !.reads = @ + 1, !.pc = "raised",
                               !.err = IF p.ending = "fin"
                                       THEN "ConnectionError"
                                       ELSE "ConnectionResetError"]
           ELSE \E k \in 1..Min(p.n, avail) :
                   p' = [p EXCEPT
                           !.reads = @ + 1,
                           !.data = @ \o SubSeq(p.stream, p.pos + 1, p.pos + k),
                           !.pos = @ + k]
    /\ UNCHANGED <<running, sess, sink, budget>>

\* lines 129-133: the loop test holds; sock.recv(n - len(data)) returns at
\* least one byte and at most what was asked for and what the peer sent, or
\* b'' at the end of the stream (ConnectionError, line 132), or raises
RecvRead ==
    /\ p.stage = "recv" /\ p.pc = "loop"
    /\ Len(p.data) < p.n
    /\ LET avail == Len(p.stream) - p.pos
       IN  IF avail = 0
           THEN p' = [p EXCEPT !.reads = @ + 1, !.pc = "raised",
                               !.err = IF p.ending = "fin"
                                       THEN "ConnectionError"
                                       ELSE "ConnectionResetError"]
           ELSE \E k \in 1..Min(p.n - Len(p.data), avail) :
                   p' = [p EXCEPT
                           !.reads = @ + 1,
                           !.data = @ \o SubSeq(p.stream, p.pos + 1, p.pos + k),
                           !.pos = @ + k]
    /\ UNCHANGED <<running, sess, sink, budget>>

\* lines 129, 134: the loop test fails, return data
RecvReturn ==
    /\ p.stage = "recv" /\ p.pc = "loop"
    /\ ~(Len(p.data) < p.n)
    /\ p' = [p EXCEPT !.pc = "returned"]
    /\ UNCHANGED <<running, sess, sink, budget>>

NextRecv ==
    \/ RecvRead
    \/ RecvReturn

SpecRecv == InitRecv /\ [][NextRecv]_vars

\* every sock.recv returns or raises, and the thread goes on running
SpecRecvLive == SpecRecv /\ WF_vars(NextRecv)

\* C12: what _recv_exact holds is always the bytes taken out of the socket,
\* the first of the peer's stream in order, never more than n; it returns
\* only with exactly n bytes, for n = 0 without a read; it raises only a
\* connection error and only when the peer closed with fewer than n bytes
\* sent; and it comes to an end.
C12_RecvExact ==
    /\ [](/\ p.data = SubSeq(p.stream, 1, p.pos)
          /\ p.pos <= p.n
          /\ p.reads <= p.n
          /\ p.pc = "returned" =>
                /\ Len(p.data) = p.n
                /\ p.data = SubSeq(p.stream, 1, p.n)
                /\ p.n = 0 => p.reads = 0
          /\ p.pc = "raised" =>
                /\ Len(p.stream) < p.n
                /\ p.err \in {"ConnectionError", "ConnectionResetError"})
    /\ <>(p.pc \in {"returned", "raised"})

\* three bytes of a longer stream returned after two partial reads
C12_Witness ==
    /\ p.stage = "recv" /\ p.pc = "returned"
    /\ p.n = 3 /\ p.reads = 2 /\ Len(p.stream) = 4
    /\ p.data = <<7, 8, 7>>

(***************************************************************************)
(* The session state machine                                               *)
(***************************************************************************)

\* calls of one kind in what a stream has seen
Calls(events, op) == Len(SelectSeq(events, LAMBDA e : e.op = op))

\* where a handler is on the way Accepted (0), ReadingQueryId (1),
\* ReadingSchema (2), StreamingBatches (3), Completed or Failed with its
\* closing steps (4)
Rank(pc) ==
    IF pc = "pending" THEN 0
    ELSE IF pc \in {"recv_qid_len", "recv_qid"} THEN 1
    ELSE IF pc \in {"recv_schema_len", "recv_schema"} THEN 2
    ELSE IF pc \in {"do_put", "recv_batch_len", "recv_batch", "write_batch"}
    THEN 3
    ELSE 4

\* C13: a handler never goes back to an earlier state, and a failed one is
\* in the last; the stream is opened once, from the state reached by reading
\* and parsing both frames, under the session's query id and schema, and it
\* is open throughout the batch loop; a write happens in the batch loop on a
\* stream that is open and has seen no close; in the last state nothing is
\* read from the socket and nothing is opened or written.
C13_OneShotStateMachine ==
    /\ [](\A c \in Conns :
            LET s == sess[c]
            IN  /\ s.err # "none" => Rank(s.pc) = 4
                /\ Calls(sink[c].events, "open") <= 1
                /\ Calls(sink[c].events, "open") = 1 =>
                      /\ Rank(s.pc) >= 3 /\ s.pc # "do_put"
                      /\ Head(sink[c].events) = OpenEvent(s.query_id, s.schema)
                      /\ s.schema = BuildSchema(s.columns)
                /\ s.pc \in {"recv_batch_len", "recv_batch", "write_batch"} =>
                      /\ Calls(sink[c].events, "open") = 1
                      /\ Calls(sink[c].events, "close") = 0)
    /\ [][\A c \in Conns :
            LET s == sess[c]
                t == sess'[c]
            IN  /\ Rank(s.pc) <= Rank(t.pc)
                /\ Calls(sink'[c].events, "open") # Calls(sink[c].events, "open")
                     => s.pc = "do_put" /\ t.pc = "recv_batch_len"
                /\ Calls(sink'[c].events, "write") # Calls(sink[c].events, "write")
                     => /\ s.pc = "write_batch" /\ t.pc = "recv_batch_len"
                        /\ Calls(sink'[c].events, "write")
                             = Calls(sink[c].events, "write") + 1
                        /\ Calls(sink'[c].events, "close") = 0
                /\ Rank(s.pc) = 4 =>
                     /\ t.rcvd = s.rcvd
                     /\ t.pc \notin {"recv_qid_len", "recv_qid",
                                     "recv_schema_len", "recv_schema",
                                     "recv_batch_len", "recv_batch"}
                     /\ Calls(sink'[c].events, "open")
                          = Calls(sink[c].events, "open")
                     /\ Calls(sink'[c].events, "write")
                          = Calls(sink[c].events, "write")
         ]_vars

\* one session went through all states with two batches, one failed at the
\* schema
C13_Witness ==
    \E c, d \in Conns :
        /\ sess[c].pc = "done" /\ sess[c].err = "none"
        /\ Calls(sink[c].events, "write") = 2
        /\ sess[d].pc = "done" /\ sess[d].err = "SchemaParse"

\* C14: a session whose do_put or write_batch raised is on its way out: it
\* has sent nothing, reads no further frame (the frames read are the batches
\* written and, for a failed write, the one that failed), writes nothing
\* more, and when it has ended the socket is closed, a stream that was
\* opened has seen its one close call and a stream that was not has seen
\* nothing.
C14_ForwarderFailureIsFatal ==
    /\ [](\A c \in Conns :
            LET s == sess[c]
            IN  s.err \in {"ForwarderOpen", "ForwarderWrite"} =>
                  /\ s.pc \in {"finally_writer", "finally_socket", "done"}
                  /\ s.sent = <<>> /\ s.logged = <<>>
                  /\ s.err = "ForwarderOpen" =>
                        /\ s.writer = "None" /\ sink[c].events = <<>>
                        /\ s.rcvd = <<>>
                  /\ s.err = "ForwarderWrite" =>
                        /\ s.writer # "None"
                        /\ Len(s.rcvd) = Calls(sink[c].events, "write") + 1
                        /\ Calls(sink[c].events, "close") =
                              IF s.pc = "finally_writer" THEN 0 ELSE 1
                  /\ s.pc = "done" => s.sock = "closed")
    /\ [][\A c \in Conns :
            sess[c].err \in {"ForwarderOpen", "ForwarderWrite"} =>
              /\ sess'[c].rcvd = sess[c].rcvd
              /\ sess'[c].err = sess[c].err
              /\ Calls(sink'[c].events, "write")
                   = Calls(sink[c].events, "write")
         ]_vars

\* a write failed after one batch was written, and an open failed
C14_Witness ==
    \E c, d \in Conns :
        /\ sess[c].pc = "done" /\ sess[c].err = "ForwarderWrite"
        /\ Calls(sink[c].events, "write") = 1
        /\ Calls(sink[c].events, "close") = 1
        /\ sess[d].pc = "done" /\ sess[d].err = "ForwarderOpen"
        /\ sess[d].client = "closed"

\* lengths of the schema texts that are not JSON or have no "columns"
BadSchemaLengths ==
    {Len(t) : t \in {u \in SchemaTexts :
                        \/ ~JsonLoads(u).ok
                        \/ ~JsonLoads(u).val.has_columns}}

\* a session that failed before do_put was reached
FailedEarly(s) ==
    \/ s.err \in {"SchemaParse", "UnicodeDecodeError"}
    \/ s.err = "ConnectionClosed" /\ s.writer = "None"

\* C15: up to the end of schema negotiation the sink has seen nothing of the
\* session and nothing was sent; a schema frame that is not JSON or has no
\* "columns" ends negotiation with an error, as does a connection closed in
\* the first two frames; a session that failed there has no Flight client
\* and no writer, its stream never sees an open, write or close, it sends no
\* byte, and when it has ended its socket is closed.
C15_SchemaFailureBeforeSink ==
    /\ [](\A c \in Conns :
            LET s == sess[c]
            IN  /\ Rank(s.pc) <= 2 =>
                     sink[c] = NoStream /\ s.sent = <<>> /\ s.writer = "None"
                /\ FailedEarly(s) =>
                     /\ sink[c] = NoStream
                     /\ s.sent = <<>> /\ s.logged = <<>>
                     /\ s.client = "None" /\ s.writer = "None"
                     /\ s.pc \in {"finally_writer", "finally_socket", "done"}
                     /\ s.pc = "done" => s.sock = "closed")
    /\ [][\A c \in Conns :
            LET s == sess[c]
                t == sess'[c]
            IN  /\ (/\ s.pc = "recv_schema" /\ t.pc # s.pc
                    /\ s.schema_len \in BadSchemaLengths)
                     => t.err \in {"SchemaParse", "ConnectionClosed"}
                /\ (Rank(s.pc) \in {1, 2} /\ t.err # "none")
                     => FailedEarly(t) /\ t.pc = "finally_writer"
                /\ FailedEarly(s) => t.err = s.err
         ]_vars

\* one session sent {} and one sent a text cut short; both have ended
C15_Witness ==
    \E c, d \in Conns :
        /\ sess[c].pc = "done" /\ sess[c].err = "SchemaParse"
        /\ sess[c].schema_len = Len(SchemaTextNoColumns)
        /\ sess[d].pc = "done" /\ sess[d].err = "SchemaParse"
        /\ sess[d].schema_len = Len(SchemaTextBroken)
        /\ sink[c] = NoStream /\ sink[d] = NoStream

(***************************************************************************)
(* The batch loop of handle_client without its socket and its stream:      *)
(* one schema, then payload after payload decoded step by step             *)
(***************************************************************************)

\* batch payloads of the loop: those of the sessions, and one row made of
\* each piece of ChunkMenu
LoopPayloads == BatchMenu \cup {<<0, 0, 0, 1>> \o c : c \in ChunkMenu}

InitDecodeLoop ==
    /\ running = TRUE
    /\ sess = <<>>
    /\ sink = <<>>
    /\ budget = 0
    /\ \E columns \in ColumnLists, data \in LoopPayloads :
          p = [stage |-> "negotiate", columns |-> columns, data |-> data,
               schema |-> <<>>, st |-> ParseStart(<<>>, <<>>),
               batch |-> Raised, batch_count |-> 0]

\* lines 92-104: the batch was built (and written and counted); the next
\* frame is read and _parse_batch is called on it
NextBatchFrame ==
    /\ p.stage = "done" /\ p.batch.ok
    /\ p.batch_count + 1 < MaxBatches
    /\ \E data \in LoopPayloads :
          p' = [p EXCEPT !.data = data,
                         !.st = ParseStart(data, p.columns),
                         !.batch_count = @ + 1,
                         !.stage = "parse"]
    /\ UNCHANGED <<running, sess, sink, budget>>

NextDecodeLoop ==
    \/ Negotiate
    \/ ParseHeader
    \/ ParseValue
    \/ ParseConvert
    \/ MakeBatch
    \/ NextBatchFrame

SpecDecodeLoop == InitDecodeLoop /\ [][NextDecodeLoop]_vars

\* C16: in every batch of the loop the decoder works on the negotiated
\* columns; after the value at (row_idx, col_idx) every column list holds
\* one value per complete row, the columns up to col_idx one more; when the
\* rows are done all R of them are complete; the arrays returned are one per
\* schema field, in the fields' order and of their types, each of length R,
\* and the batch is built from them with the schema; the schema and the
\* columns do not change once negotiated.
C16_ColumnsMatchSchema ==
    /\ [](p.stage \in {"parse", "done"} =>
            LET st == p.st
                n  == Len(p.columns)
            IN  /\ st.columns = p.columns
                /\ p.schema = BuildSchema(p.columns)
                /\ st.phase \in {"value", "convert", "done"} =>
                      /\ Len(st.col_data) = n
                      /\ \A i \in 1..n :
                            Len(st.col_data[i]) =
                               st.row_idx + (IF i <= st.col_idx THEN 1 ELSE 0)
                /\ (st.phase \in {"convert", "done"} /\ n > 0) =>
                      st.row_idx = DeclaredRows(p.data) /\ st.col_idx = 0
                /\ st.phase = "done" =>
                      /\ Len(st.arrays) = Len(p.schema)
                      /\ \A i \in 1..n :
                            /\ st.arrays[i].type = p.schema[i].type
                            /\ st.arrays[i].values = st.col_data[i]
                            /\ Len(st.arrays[i].values) = DeclaredRows(p.data)
                /\ (p.stage = "done" /\ st.phase = "done") =>
                      /\ p.batch.ok
                      /\ p.batch.val.schema = p.schema
                      /\ p.batch.val.columns = st.arrays)
    /\ [][p.stage # "negotiate" =>
             p'.schema = p.schema /\ p'.columns = p.columns]_vars

\* the second batch of an (INTEGER, VARCHAR) schema, two rows, built
C16_Witness ==
    /\ p.stage = "done" /\ p.batch.ok /\ p.batch_count = 1
    /\ p.data = PayloadTwoRows
    /\ Len(p.columns) = 2
    /\ p.columns[1].type = "INTEGER" /\ p.columns[2].type = "VARCHAR"
    /\ Len(p.st.arrays[2].values) = 2

(***************************************************************************)
(* Progress of the handler threads                                         *)
(***************************************************************************)

\* a step of the handler thread of connection c
HandlerStep(c) ==
    \/ RecvQueryIdLen(c)
    \/ RecvQueryId(c)
    \/ RecvSchemaLen(c)
    \/ RecvSchema(c)
    \/ DoPut(c)
    \/ RecvBatchLen(c)
    \/ RecvBatch(c)
    \/ WriteBatch(c)
    \/ CloseWriter(c)
    \/ SendAck(c)
    \/ FinallyWriter(c)
    \/ FinallySocket(c)

\* the connections made in the runs that are checked for progress
LiveConns == {"c1"}

NextLive ==
    \E c \in LiveConns :
        \/ Accept(c)
        \/ HandlerStep(c)

\* the runs of Spec in which the peers of LiveConns connect, where each
\* handler thread keeps running, every _recv_exact ends (the peer delivers
\* the bytes or closes) and every Flight call returns or raises; the peers
\* send MaxBatches batch frames at most
SpecLive ==
    Init /\ [][NextLive]_vars /\ \A c \in LiveConns : WF_vars(HandlerStep(c))

\* C17: an accepted session comes to its end, with its socket closed, and
\* so does not stay in any state before it for ever.
C17_SessionsTerminate ==
    \A c \in LiveConns :
        (sess[c].pc # "pending")
            ~> (sess[c].pc = "done" /\ sess[c].sock = "closed")

\* a session has ended after its two batches
C17_Witness ==
    \E c \in LiveConns :
        /\ sess[c].pc = "done" /\ sess[c].err = "none"
        /\ sess[c].batch_count = 2
        /\ sess[c].sock = "closed"

\* whether a is an initial part of b
IsPrefix(a, b) == Len(a) <= Len(b) /\ a = SubSeq(b, 1, Len(a))

\* C18: what a stream has seen is never taken back; a session that failed
\* in the batch loop after k >= 1 writes and has ended leaves its stream
\* with the open, the first k batches it read, in order, and one close call,
\* the call a session without error issues, the stream finalized, and has
\* sent the client nothing.
C18_FailedStreamLooksClosed ==
    /\ [](\A c \in Conns :
            LET s == sess[c]
                k == Calls(sink[c].events, "write")
            IN  (/\ s.pc = "done" /\ k >= 1
                 /\ s.err \in {"ConnectionClosed", "BatchDecode",
                               "ForwarderWrite"}) =>
                  /\ sink[c].events =
                       <<OpenEvent(QueryIdText(c), BuildSchema(s.columns))>>
                       \o [i \in 1..k |-> DecodedWrite(s.rcvd[i], s.columns)]
                       \o <<CloseEvent>>
                  /\ k = s.batch_count /\ k <= Len(s.rcvd)
                  /\ sink[c].closed
                  /\ s.sent = <<>> /\ s.logged = <<>>)
    /\ [][\A c \in Conns : IsPrefix(sink[c].events, sink'[c].events)]_vars

\* a stream closed downstream after one batch whose session failed on the
\* next one, next to a session that completed
C18_Witness ==
    \E c, d \in Conns :
        /\ sess[c].pc = "done" /\ sess[c].err = "BatchDecode"
        /\ Calls(sink[c].events, "write") = 1
        /\ sink[c].closed /\ sess[c].sent = <<>>
        /\ sess[d].pc = "done" /\ sess[d].err = "none"
        /\ sink[d].closed /\ sess[d].sent = Ack

\* C19: when the whole "OK" was sent, every batch read had been written and
\* the stream closed without error before; sendall fails only with the
\* stream finalized by the one close of line 111, and a session where it
\* failed is on the error path: the "OK" is not complete, the totals are not
\* logged, the stream stays finalized and has seen a second close call when
\* the finally block is through.
C19_AckImpliesClosedNotConversely ==
    /\ [](\A c \in Conns :
            LET s == sess[c]
            IN  /\ s.sent = Ack =>
                     /\ s.err = "none" /\ s.batch_len = 0
                     /\ sink[c].closed
                     /\ Calls(sink[c].events, "close") >= 1
                     /\ Calls(sink[c].events, "write") = Len(s.rcvd)
                     /\ s.logged = <<s.total_rows, s.batch_count>>
                /\ s.err = "AckSend" =>
                     /\ s.sent # Ack /\ s.logged = <<>>
                     /\ s.pc \in {"finally_writer", "finally_socket", "done"}
                     /\ sink[c].closed
                     /\ Calls(sink[c].events, "write") = Len(s.rcvd)
                     /\ Calls(sink[c].events, "close") =
                           IF s.pc = "finally_writer" THEN 1 ELSE 2
                     /\ s.pc = "done" => s.sock = "closed")
    /\ [][\A c \in Conns :
            (sess[c].err = "none" /\ sess'[c].err = "AckSend") =>
               /\ sess[c].pc = "sendall"
               /\ sink[c].closed
               /\ Calls(sink[c].events, "close") = 1
               /\ sink'[c] = sink[c]
         ]_vars

\* the stream was closed after one batch, sendall failed, the session has
\* ended
C19_Witness ==
    \E c \in Conns :
        /\ sess[c].pc = "done" /\ sess[c].err = "AckSend"
        /\ sink[c].closed
        /\ Calls(sink[c].events, "write") = 1
        /\ Calls(sink[c].events, "close") = 2
        /\ sess[c].logged = <<>>

=============================================================================
